---- MODULE Spec2Model ----
(***************************************************************************)
(* CommunityMQTTFeed (octobot/community/feeds/community_mqtt_feed.py):     *)
(* the feed session, its subscription registry and its message dispatch,   *)
(* as a state machine over the feed object's fields and the transport      *)
(* (gmqtt client) handles it creates.                                      *)
(***************************************************************************)
EXTENDS Integers, Sequences, FiniteSets, TLC

VARIABLES
    feed_callbacks,        \* dict topic -> list of callbacks
    _subscription_topics,  \* set of topics
    _mqtt_client,          \* NoClient, or the handle the feed currently holds
    _device_credential,    \* NoCredential, or the credential string
    clients,               \* every gmqtt.Client created so far: handle -> "connecting"
                           \* (first connection or reconnection under way), "connected",
                           \* or "closed" (disconnect() was called on it)
    pending,               \* subscribe requests sent to the broker and not yet acknowledged
    tasks,                 \* running _on_message coroutines, suspended in a callback
    event                  \* what the last handler did: its inputs, the transport calls it
                           \* issued, the callbacks it invoked, the error it raised

vars == <<feed_callbacks, _subscription_topics, _mqtt_client, _device_credential,
          clients, pending, tasks, event>>

\* the state of the feed object and of its transport handles
session == <<feed_callbacks, _subscription_topics, _mqtt_client, _device_credential,
             clients, pending, tasks>>

(***************************************************************************)
(* Bounds of the model.                                                    *)
(***************************************************************************)
MaxRegistrations == 2   \* register_feed_callback calls (lifecycle)
MaxClients == 2         \* start() calls, each creating one gmqtt.Client
MaxPending == 1         \* subscribe requests awaiting their SUBACK
MaxCallbacks == 3       \* register_feed_callback calls (message dispatch)
MaxTasks == 2           \* _on_message coroutines suspended at the same time

(***************************************************************************)
(* Program constants and input domains.                                    *)
(***************************************************************************)
default_QOS == 1
UNSPECIFIED_ERROR == 128
COMMUNITY_FEED_CURRENT_MINIMUM_VERSION == <<1, 0, 0>>
DEVICE_CREDENTIAL == "a8e68204-4c51-47c0-bb22-b24fae14d546"

NoClient == 0
NoCredential == "None"
NoError == "none"

\* CommunityChannelTypes values
ChannelTypes == {"signal", "price"}
\* identifier argument: None (the default) or a str; topic separators are not escaped
NoneId == [isNone |-> TRUE, s |-> ""]
StrId(s) == [isNone |-> FALSE, s |-> s]
Identifiers == {NoneId, StrId("signal/None")}
\* codes a SUBACK carries for a subscription requested at default_QOS: granted, or failure
QosCodes == {1, UNSPECIFIED_ERROR}
\* envelope versions, as LooseVersion parses them into components
Versions == {<<0, 0, 1>>, <<1, 0, 0>>, <<2, 0, 0>>}
\* payloads: bytes that do not decompress/parse, or a compressed envelope
NoPayload == [kind |-> "none", version |-> <<>>]
Garbage == [kind |-> "garbage", version |-> <<>>]
Envelope(v) == [kind |-> "envelope", version |-> v]
Payloads == {Garbage} \cup {Envelope(v) : v \in Versions}
\* message values handed to send: None, {}, {"1": 7}, {1: 7}, [7], (7,).  Every
\* value is a type with its items; an item is a key (a str or an int of a dict, a
\* position of a list or tuple) and the int stored under it
PyValue(type, items) == [type |-> type, items |-> items]
Item(keytype, key, x) == [keytype |-> keytype, key |-> key, x |-> x]
PyNone == PyValue("NoneType", <<>>)
EmptyDict == PyValue("dict", <<>>)
Messages == {PyNone, EmptyDict,
             PyValue("dict", <<Item("str", 1, 7)>>), PyValue("dict", <<Item("int", 1, 7)>>),
             PyValue("list", <<Item("pos", 1, 7)>>), PyValue("tuple", <<Item("pos", 1, 7)>>)}
\* what an awaited callback does when it resumes
CallbackOutcomes == {"returns", "UnsupportedError", "Exception"}

(***************************************************************************)
(* Helpers.                                                                *)
(***************************************************************************)
\* every listing of a set (iteration order of a Python set is unspecified)
Orders(S) == {q \in [1..Cardinality(S) -> S] : \A i, j \in 1..Cardinality(S) : q[i] = q[j] => i = j}

RECURSIVE TotalLen(_, _)
TotalLen(f, D) == IF D = {} THEN 0
                  ELSE LET t == CHOOSE x \in D : TRUE IN Len(f[t]) + TotalLen(f, D \ {t})
Registrations == TotalLen(feed_callbacks, DOMAIN feed_callbacks)

\* str(identifier) as the f-string formats it
Format(identifier) == IF identifier.isNone THEN "None" ELSE identifier.s

_build_topic(channel_type, identifier) == channel_type \o "/" \o Format(identifier)

Topics == {_build_topic(c, i) : c \in ChannelTypes, i \in Identifiers}

\* `identifier not in self._subscription_topics` (None equals no str)
IdentifierNotInTopics(identifier) ==
    IF identifier.isNone THEN TRUE ELSE identifier.s \notin _subscription_topics

\* Python list comparison a < b of LooseVersion component lists
RECURSIVE ListLess(_, _)
ListLess(a, b) ==
    IF b = <<>> THEN FALSE
    ELSE IF a = <<>> THEN TRUE
    ELSE IF Head(a) # Head(b) THEN Head(a) < Head(b)
    ELSE ListLess(Tail(a), Tail(b))

\* faulty variant: the comparison is turned around
_ensure_supported_raises_flipped(version) ==
    ListLess(COMMUNITY_FEED_CURRENT_MINIMUM_VERSION, version)

\* TRUE when _ensure_supported raises UnsupportedError
_ensure_supported_raises(version) ==
    ListLess(version, COMMUNITY_FEED_CURRENT_MINIMUM_VERSION)

\* faulty variant: the callbacks are yielded last registered first
_get_callbacks_reversed(topic) ==
    IF topic \in DOMAIN feed_callbacks
    THEN [i \in 1..Len(feed_callbacks[topic]) |->
            feed_callbacks[topic][Len(feed_callbacks[topic]) + 1 - i]]
    ELSE <<>>

\* the list _get_callbacks iterates: feed_callbacks.get(topic, ())
_get_callbacks(topic) ==
    IF topic \in DOMAIN feed_callbacks THEN feed_callbacks[topic] ELSE <<>>

NoEvent == [op |-> "init", client |-> NoClient, topic |-> "", payload |-> NoPayload,
            subscribe |-> <<>>, batch |-> <<>>, qos |-> <<>>, resubscribe |-> <<>>,
            disconnect |-> <<>>, invoked |-> <<>>, stage |-> "", raised |-> NoError,
            publish |-> <<>>, args |-> <<>>, result |-> <<>>, auth |-> <<>>]

\* _subscribe(topics), topics listed in iteration order: the requests handed to
\* self._mqtt_client (whatever its connection state) and the error raised
_subscribe(topics) ==
    IF topics = <<>> THEN [raised |-> NoError, subscribe |-> <<>>]
    ELSE IF _mqtt_client = NoClient THEN [raised |-> "AttributeError", subscribe |-> <<>>]
    ELSE [raised |-> NoError,
          subscribe |-> << [client |-> _mqtt_client, qos |-> default_QOS, topics |-> topics] >>]

\* the broker queues a request it receives on a live connection
Sent(requests) ==
    {requests[i] : i \in {j \in 1..Len(requests) : clients[requests[j].client] = "connected"}}

\* the feed as constructed: no callback (the dict AbstractFeed.__init__ creates), no
\* topic, no client, no credential
Init ==
    /\ feed_callbacks = << >>
    /\ _subscription_topics = {}
    /\ _mqtt_client = NoClient
    /\ _device_credential = NoCredential
    /\ clients = << >>
    /\ pending = {}
    /\ tasks = << >>
    /\ event = NoEvent

(***************************************************************************)
(* Caller API.                                                             *)
(***************************************************************************)
\* faulty variant: start() connects without fetching
credential_after_fetch_skipped == _device_credential

\* _device_credential once _fetch_device_credential() has returned: the method
\* assigns the credential and returns, it has no failing path
credential_after_fetch == DEVICE_CREDENTIAL

\* start(): _fetch_device_credential(), then _connect() up to its await: a new
\* gmqtt.Client, set_auth_credentials(self._device_credential, None), connect
start ==
    /\ _device_credential' = credential_after_fetch
    /\ clients' = Append(clients, "connecting")
    /\ _mqtt_client' = Len(clients) + 1
    /\ event' = [NoEvent EXCEPT !.op = "start", !.client = Len(clients) + 1,
                                !.auth = << [username |-> _device_credential',
                                             password |-> "None"] >>]
    /\ UNCHANGED <<feed_callbacks, _subscription_topics, pending, tasks>>

\* faulty variant: is_connected is not consulted
stop_disconnects_unchecked == _mqtt_client # NoClient

\* the guard of stop()
stop_disconnects == _mqtt_client # NoClient /\ clients[_mqtt_client] = "connected"

\* faulty variant: stop() forgets the subscriptions
_subscription_topics_after_stop_cleared == {}

\* _subscription_topics once stop() has run: stop() never writes it
_subscription_topics_after_stop == _subscription_topics

stop ==
    /\ IF stop_disconnects
       THEN /\ clients' = [clients EXCEPT ![_mqtt_client] = "closed"]
            /\ pending' = {r \in pending : r.client # _mqtt_client}
            /\ event' = [NoEvent EXCEPT !.op = "stop", !.client = _mqtt_client,
                                        !.disconnect = <<_mqtt_client>>]
       ELSE /\ event' = [NoEvent EXCEPT !.op = "stop", !.client = _mqtt_client]
            /\ UNCHANGED <<clients, pending>>
    /\ _subscription_topics' = _subscription_topics_after_stop
    /\ UNCHANGED <<feed_callbacks, _mqtt_client, _device_credential, tasks>>

(***************************************************************************)
(* Envelope codec.                                                         *)
(***************************************************************************)
\* faulty variant: only None is taken for empty
Truthy_unless_none(message) == message.type # "NoneType"

\* `if message:` : None and empty containers are falsy
Truthy(message) == message.type # "NoneType" /\ message.items # <<>>

\* json.dumps of a message value: a dict becomes an object whose keys are all
\* strings, a list or a tuple becomes an array, None becomes null
json_dumps(value) ==
    [json |-> CASE value.type = "NoneType" -> "null"
                [] value.type = "dict" -> "object"
                [] OTHER -> "array",
     items |-> [i \in 1..Len(value.items) |->
                  IF value.items[i].keytype = "int"
                  THEN Item("str", value.items[i].key, value.items[i].x)
                  ELSE value.items[i]]]

\* json.loads: an object becomes a dict, an array a list, null None
json_loads(text) ==
    PyValue(CASE text.json = "null" -> "NoneType"
              [] text.json = "object" -> "dict"
              [] OTHER -> "list",
            text.items)

\* json.dumps of the envelope dict: channel_type is handed over as the enum member
\* itself (not its .value), which the encoder cannot serialize
json_dumps_envelope(channel_type, version, value) ==
    [raised |-> "TypeError",
     text |-> [channel_type |-> channel_type, version |-> version, value |-> json_dumps(value)]]

zlib_compress(data) == [zlib |-> data]
zlib_decompress(payload) == payload.zlib

\* _build_message: the bytes handed to publish, or {} for a falsy message
_build_message(channel_type, message) ==
    IF Truthy(message)
    THEN LET dumped == json_dumps_envelope(channel_type,
                           COMMUNITY_FEED_CURRENT_MINIMUM_VERSION, message)
         IN  IF dumped.raised # NoError
             THEN [raised |-> dumped.raised, result |-> <<>>]
             ELSE [raised |-> NoError, result |-> <<zlib_compress(dumped.text)>>]
    ELSE [raised |-> NoError, result |-> <<EmptyDict>>]

\* send(): the attribute lookup on self._mqtt_client comes first, then the arguments
send(message, channel_type, identifier) ==
    LET built == _build_message(channel_type, message)
    IN  /\ event' =
              IF _mqtt_client = NoClient
              THEN [NoEvent EXCEPT !.op = "send", !.args = <<message, channel_type, identifier>>,
                                   !.raised = "AttributeError"]
              ELSE IF built.raised # NoError
              THEN [NoEvent EXCEPT !.op = "send", !.args = <<message, channel_type, identifier>>,
                                   !.client = _mqtt_client, !.raised = built.raised]
              ELSE [NoEvent EXCEPT !.op = "send", !.args = <<message, channel_type, identifier>>,
                                   !.client = _mqtt_client,
                                   !.publish = << [client |-> _mqtt_client,
                                                   topic |-> _build_topic(channel_type, identifier),
                                                   payload |-> built.result[1],
                                                   qos |-> default_QOS] >>]
        /\ UNCHANGED session

\* json.loads(zlib.decompress(payload).decode()) of _on_message
decode(payload) ==
    LET text == zlib_decompress(payload)
    IN  [channel_type |-> text.channel_type, version |-> text.version,
         value |-> json_loads(text.value)]

\* _build_message applied to drawn arguments
build_message(channel_type, message) ==
    LET built == _build_message(channel_type, message)
    IN  /\ event' = [NoEvent EXCEPT !.op = "_build_message",
                                    !.args = <<channel_type, message>>,
                                    !.result = built.result, !.raised = built.raised]
        /\ UNCHANGED session

(***************************************************************************)
(* Version strings.                                                        *)
(***************************************************************************)
Digit == <<"0", "1", "2", "3", "4", "5", "6", "7", "8", "9">>
DigitValue(ch) == CHOOSE d \in 0..9 : Digit[d + 1] = ch

\* str(n), as a sequence of characters
RECURSIVE IntToChars(_)
IntToChars(n) ==
    IF n < 10 THEN <<Digit[n + 1]>>
    ELSE IntToChars(n \div 10) \o <<Digit[(n % 10) + 1]>>

\* the version string "major.minor.patch" of an envelope
VersionString(v) ==
    IntToChars(v[1]) \o <<".">> \o IntToChars(v[2]) \o <<".">> \o IntToChars(v[3])

VersionComponents == {0, 1, 2, 9, 10}
WellFormedVersions == VersionComponents \X VersionComponents \X VersionComponents

\* LooseVersion.parse on digits and dots: the dots split, each run of digits is
\* converted by int()
RECURSIVE ParseComponents(_, _, _)
ParseComponents(chars, number, digits) ==
    IF chars = <<>> THEN (IF digits > 0 THEN <<number>> ELSE <<>>)
    ELSE IF Head(chars) = "."
    THEN (IF digits > 0 THEN <<number>> ELSE <<>>) \o ParseComponents(Tail(chars), 0, 0)
    ELSE ParseComponents(Tail(chars), 10 * number + DigitValue(Head(chars)), digits + 1)

LooseVersion(vstring) == ParseComponents(vstring, 0, 0)

\* the code point order of the characters of a version string
CharOrd(ch) == IF ch = "." THEN 46 ELSE 48 + DigitValue(ch)

\* faulty variant: the version strings are compared as strings
LooseVersionLess_lexical(a, b) ==
    ListLess([i \in DOMAIN a |-> CharOrd(a[i])], [i \in DOMAIN b |-> CharOrd(b[i])])

\* LooseVersion(a) < LooseVersion(b)
LooseVersionLess(a, b) == ListLess(LooseVersion(a), LooseVersion(b))

\* _ensure_supported applied to an envelope of version v by a client whose minimum
\* version is minimum
ensure_supported(v, minimum) ==
    /\ event' = [NoEvent EXCEPT !.op = "_ensure_supported", !.args = <<v, minimum>>,
                                !.raised = IF LooseVersionLess(VersionString(v),
                                                               VersionString(minimum))
                                           THEN "UnsupportedError" ELSE NoError]
    /\ UNCHANGED session

register_feed_callback(channel_type, callback, identifier) ==
    LET topic == _build_topic(channel_type, identifier)
        sub == IF IdentifierNotInTopics(identifier)
               THEN _subscribe(<<topic>>)
               ELSE [raised |-> NoError, subscribe |-> <<>>]
    IN  /\ feed_callbacks' =
             [t \in DOMAIN feed_callbacks \cup {topic} |->
                IF t # topic THEN feed_callbacks[t]
                ELSE IF topic \in DOMAIN feed_callbacks
                     THEN Append(feed_callbacks[topic], callback)  \* no KeyError
                     ELSE <<callback>>]
        /\ _subscription_topics' =
             IF IdentifierNotInTopics(identifier)
             THEN _subscription_topics \cup {topic} ELSE _subscription_topics
        /\ pending' = pending \cup Sent(sub.subscribe)
        /\ event' = [NoEvent EXCEPT !.op = "register_feed_callback",
                                    !.client = _mqtt_client, !.topic = topic,
                                    !.subscribe = sub.subscribe, !.raised = sub.raised]
        /\ UNCHANGED <<_mqtt_client, _device_credential, clients, tasks>>

(***************************************************************************)
(* Transport events.                                                       *)
(***************************************************************************)
\* CONNACK on client (first connection or reconnection) fires _on_connect
_on_connect(client) ==
    /\ clients[client] = "connecting"
    /\ clients' = [clients EXCEPT ![client] = "connected"]
    /\ \E topics \in Orders(_subscription_topics) :
         LET sub == _subscribe(topics)
             live == {sub.subscribe[i] : i \in {j \in 1..Len(sub.subscribe) :
                         clients'[sub.subscribe[j].client] = "connected"}}
         IN  /\ pending' = pending \cup live
                  /\ event' = [NoEvent EXCEPT !.op = "_on_connect", !.client = client,
                                         !.subscribe = sub.subscribe, !.raised = sub.raised]
    /\ UNCHANGED <<feed_callbacks, _subscription_topics, _mqtt_client, _device_credential, tasks>>

\* the connection of client is lost (the transport will try to reconnect):
\* _on_disconnect only logs
_on_disconnect(client) ==
    /\ clients[client] = "connected"
    /\ clients' = [clients EXCEPT ![client] = "connecting"]
    /\ pending' = {r \in pending : r.client # client}
    /\ event' = [NoEvent EXCEPT !.op = "_on_disconnect", !.client = client]
    /\ UNCHANGED <<feed_callbacks, _subscription_topics, _mqtt_client, _device_credential, tasks>>

\* faulty variant: the boundary code itself is taken for a success
bad_suback_code_strict(granted_qos) == granted_qos > UNSPECIFIED_ERROR

\* `granted_qos >= gmqtt.constants.SubAckReasonCode.UNSPECIFIED_ERROR.value`
bad_suback_code(granted_qos) == granted_qos >= UNSPECIFIED_ERROR

\* faulty variant: a rejected subscription is given up
Resubscribed_never(subscriptions, qos) == <<>>

\* the subscriptions _on_subscribe resubscribes: zip(subscriptions, qos), bad codes
RECURSIVE Resubscribed(_, _)
Resubscribed(subscriptions, qos) ==
    IF subscriptions = <<>> \/ qos = <<>> THEN <<>>
    ELSE (IF bad_suback_code(Head(qos)) THEN <<Head(subscriptions)>> ELSE <<>>)
         \o Resubscribed(Tail(subscriptions), Tail(qos))

\* SUBACK for request, one code per subscription, fires _on_subscribe
_on_subscribe(request, qos) ==
    LET again == Resubscribed(request.topics, qos)
    IN  /\ request \in pending
        /\ clients[request.client] = "connected"
        /\ pending' = (pending \ {request}) \cup
                      {[client |-> request.client, qos |-> request.qos, topics |-> <<again[i]>>] :
                          i \in 1..Len(again)}
        /\ event' = [NoEvent EXCEPT !.op = "_on_subscribe", !.client = request.client,
                                    !.batch = request.topics, !.qos = qos,
                                    !.resubscribe = again]
        /\ UNCHANGED <<feed_callbacks, _subscription_topics, _mqtt_client,
                       _device_credential, clients, tasks>>

\* faulty variant: the lookup inserts an empty list for an unknown topic (setdefault)
feed_callbacks_after_setdefault(topic) ==
    [t \in DOMAIN feed_callbacks \cup {topic} |->
        IF t \in DOMAIN feed_callbacks THEN feed_callbacks[t] ELSE <<>>]

\* feed_callbacks once _get_callbacks has looked topic up: dict.get inserts nothing
feed_callbacks_after_get(topic) == feed_callbacks

\* remove the k-th element of a sequence
Without(q, k) == SubSeq(q, 1, k - 1) \o SubSeq(q, k + 1, Len(q))

\* a message arrives on a live connection: _on_message up to its first await
_on_message(client, topic, payload) ==
    /\ clients[client] = "connected"
    /\ IF payload.kind = "garbage"
       THEN \* zlib.decompress / json.loads raise before the try block
            /\ event' = [NoEvent EXCEPT !.op = "_on_message", !.client = client,
                                        !.topic = topic, !.payload = payload,
                                        !.stage = "decode_failed", !.raised = "DecodeError"]
            /\ tasks' = tasks
       ELSE IF _ensure_supported_raises(payload.version)
       THEN \* UnsupportedError caught and logged
            /\ event' = [NoEvent EXCEPT !.op = "_on_message", !.client = client,
                                        !.topic = topic, !.payload = payload,
                                        !.stage = "version_unsupported"]
            /\ tasks' = tasks
       ELSE IF _get_callbacks(topic) = <<>>
       THEN /\ event' = [NoEvent EXCEPT !.op = "_on_message", !.client = client,
                                        !.topic = topic, !.payload = payload,
                                        !.stage = "dispatched"]
            /\ tasks' = tasks
       ELSE /\ tasks' = Append(tasks, [topic |-> topic, invoked |-> <<_get_callbacks(topic)[1]>>])
            /\ event' = [NoEvent EXCEPT !.op = "_on_message", !.client = client,
                                        !.topic = topic, !.payload = payload,
                                        !.invoked = <<_get_callbacks(topic)[1]>>,
                                        !.stage = "awaiting"]
    /\ feed_callbacks' =
         IF payload.kind = "garbage" \/ _ensure_supported_raises(payload.version)
         THEN feed_callbacks ELSE feed_callbacks_after_get(topic)
    /\ UNCHANGED <<_subscription_topics, _mqtt_client, _device_credential, clients, pending>>

\* faulty variant: an UnsupportedError of a callback is caught inside the loop
loop_continues_unless_exception(outcome) == outcome # "Exception"

\* `for callback in ...: await callback(parsed_message)`: the loop goes on only when
\* the awaited callback returns
loop_continues(outcome) == outcome = "returns"

\* the callback the k-th running _on_message awaits resumes it with outcome
callback_resumes(k, outcome) ==
    LET task == tasks[k]
        n == Len(task.invoked)
        callbacks == _get_callbacks(task.topic)
        ended(stage, raised) ==
            /\ tasks' = Without(tasks, k)
            /\ event' = [NoEvent EXCEPT !.op = "_on_message", !.topic = task.topic,
                                        !.payload = NoPayload, !.args = <<outcome>>,
                                        !.invoked = task.invoked,
                                        !.stage = stage, !.raised = raised]
    IN  /\ IF loop_continues(outcome)
           THEN IF n < Len(callbacks)
                THEN /\ tasks' = [tasks EXCEPT ![k].invoked = Append(task.invoked, callbacks[n + 1])]
                     /\ event' = [NoEvent EXCEPT !.op = "_on_message", !.topic = task.topic,
                                                 !.payload = NoPayload, !.args = <<outcome>>,
                                                 !.invoked = Append(task.invoked, callbacks[n + 1]),
                                                 !.stage = "awaiting"]
                ELSE ended("dispatched", NoError)
           ELSE IF outcome = "UnsupportedError"
           THEN ended("callback_unsupported", NoError)   \* caught and logged
           ELSE ended("callback_raised", "Exception")
        /\ UNCHANGED <<feed_callbacks, _subscription_topics, _mqtt_client, _device_credential,
                       clients, pending>>

(***************************************************************************)
(* Session lifecycle and subscriptions: the caller starts, stops and       *)
(* registers in any order while the transport connects, loses the          *)
(* connection, reconnects and acknowledges subscribe requests.             *)
(***************************************************************************)
Next ==
    \/ Len(clients) < MaxClients /\ start
    \/ stop
    \* every registration passes a callback object of its own, named by its rank
    \/ /\ Registrations < MaxRegistrations
       /\ \E c \in ChannelTypes, i \in Identifiers : register_feed_callback(c, Registrations + 1, i)
       /\ Cardinality(pending') <= MaxPending
    \/ \E h \in DOMAIN clients : _on_connect(h) /\ Cardinality(pending') <= MaxPending
    \/ \E h \in DOMAIN clients : _on_disconnect(h)
    \/ \E r \in pending : \E qos \in [1..Len(r.topics) -> QosCodes] :
          _on_subscribe(r, qos) /\ Cardinality(pending') <= MaxPending

Spec == Init /\ [][Next]_vars

(***************************************************************************)
(* Message dispatch: on a started and connected session, registrations,    *)
(* inbound messages and the callbacks' completions interleave.  The        *)
(* lifecycle handlers left out write neither feed_callbacks nor tasks.     *)
(***************************************************************************)
InitConnected ==
    /\ feed_callbacks = << >>
    /\ _subscription_topics = {}
    /\ _mqtt_client = 1
    /\ _device_credential = DEVICE_CREDENTIAL
    /\ clients = <<"connected">>
    /\ pending = {}
    /\ tasks = << >>
    /\ event = [NoEvent EXCEPT !.op = "_on_connect", !.client = 1]

NextDispatch ==
    \/ /\ Registrations < MaxCallbacks
       /\ \E c \in ChannelTypes, i \in Identifiers : register_feed_callback(c, Registrations + 1, i)
    \/ \E t \in Topics, p \in Payloads : _on_message(1, t, p) /\ Len(tasks') <= MaxTasks
    \/ \E k \in DOMAIN tasks, o \in CallbackOutcomes : callback_resumes(k, o)

SpecDispatch == InitConnected /\ [][NextDispatch]_vars

(***************************************************************************)
(* Every operation and transport event together: the lifecycle of Spec     *)
(* with send(), inbound messages on the registered topics and the          *)
(* callbacks' completions.                                                 *)
(***************************************************************************)
AllRegistrations == 1   \* register_feed_callback calls
AllClients == 2         \* start() calls
AllTasks == 1           \* _on_message coroutines suspended at the same time

NextAll ==
    \/ Len(clients) < AllClients /\ start
    \/ stop
    \/ /\ Registrations < AllRegistrations
       /\ \E c \in ChannelTypes, i \in Identifiers : register_feed_callback(c, Registrations + 1, i)
       /\ Cardinality(pending') <= MaxPending
    \/ \E h \in DOMAIN clients : _on_connect(h) /\ Cardinality(pending') <= MaxPending
    \/ \E h \in DOMAIN clients : _on_disconnect(h)
    \/ \E r \in pending : \E qos \in [1..Len(r.topics) -> QosCodes] :
          _on_subscribe(r, qos) /\ Cardinality(pending') <= MaxPending
    \/ \E m \in {PyNone, PyValue("dict", <<Item("str", "1", 7)>>)}, c \in ChannelTypes :
          send(m, c, NoneId)
    \/ \E h \in DOMAIN clients, t \in DOMAIN feed_callbacks :
          _on_message(h, t, Envelope(COMMUNITY_FEED_CURRENT_MINIMUM_VERSION))
          /\ Len(tasks') <= AllTasks
    \/ \E k \in DOMAIN tasks, o \in CallbackOutcomes : callback_resumes(k, o)

SpecAll == Init /\ [][NextAll]_vars

(***************************************************************************)
(* The envelope codec and the version check on drawn arguments, and send() *)
(* on a connected session.                                                 *)
(***************************************************************************)
\* the arguments of one call, on a started and connected session
Call(function, args) == [NoEvent EXCEPT !.op = "call", !.stage = function, !.args = args]

InitCodec ==
    /\ feed_callbacks = << >>
    /\ _subscription_topics = {}
    /\ _mqtt_client = 1
    /\ _device_credential = DEVICE_CREDENTIAL
    /\ clients = <<"connected">>
    /\ pending = {}
    /\ tasks = << >>
    /\ event \in {Call("_build_message", <<c, m>>) : c \in ChannelTypes, m \in Messages}
            \cup {Call("send", <<m, c, i>>) :
                     m \in Messages, c \in ChannelTypes, i \in Identifiers}
            \cup {Call("_ensure_supported", <<v, minimum>>) :
                     v \in WellFormedVersions, minimum \in WellFormedVersions}

NextCodec ==
    \/ /\ event.op = "call" /\ event.stage = "_build_message"
       /\ build_message(event.args[1], event.args[2])
    \/ /\ event.op = "call" /\ event.stage = "send"
       /\ send(event.args[1], event.args[2], event.args[3])
    \/ /\ event.op = "call" /\ event.stage = "_ensure_supported"
       /\ ensure_supported(event.args[1], event.args[2])

SpecCodec == InitCodec /\ [][NextCodec]_vars

(***************************************************************************)
(* Subscription retry: a started session connects and stays connected      *)
(* while the caller registers and the broker acknowledges; the broker      *)
(* does not reject for ever.                                               *)
(***************************************************************************)
InitStarted ==
    /\ feed_callbacks = << >>
    /\ _subscription_topics = {}
    /\ _mqtt_client = 1
    /\ _device_credential = DEVICE_CREDENTIAL
    /\ clients = <<"connecting">>
    /\ pending = {}
    /\ tasks = << >>
    /\ event = [NoEvent EXCEPT !.op = "start", !.client = 1,
                               !.auth = << [username |-> DEVICE_CREDENTIAL,
                                            password |-> "None"] >>]

\* the SUBACK that grants every subscription of request
Granting(request) == [i \in 1..Len(request.topics) |-> default_QOS]

NextRetry ==
    \/ /\ Registrations < MaxRegistrations
       /\ \E c \in ChannelTypes, i \in Identifiers : register_feed_callback(c, Registrations + 1, i)
    \/ _on_connect(1)
    \/ \E r \in pending : \E qos \in [1..Len(r.topics) -> QosCodes] : _on_subscribe(r, qos)

SpecRetry ==
    /\ InitStarted
    /\ [][NextRetry]_vars
    /\ WF_vars(\E r \in pending : _on_subscribe(r, Granting(r)))

(***************************************************************************)
(* Properties.                                                             *)
(***************************************************************************)
\* numeric major.minor.patch ordering of well-formed versions
SemverBelow(v, m) ==
    \/ v[1] < m[1]
    \/ v[1] = m[1] /\ v[2] < m[2]
    \/ v[1] = m[1] /\ v[2] = m[2] /\ v[3] < m[3]

Supported(payload) ==
    /\ payload.kind = "envelope"
    /\ ~SemverBelow(payload.version, COMMUNITY_FEED_CURRENT_MINIMUM_VERSION)

IsPrefix(p, q) == Len(p) <= Len(q) /\ p = SubSeq(q, 1, Len(p))

Occurrences(q, x) == Cardinality({i \in 1..Len(q) : q[i] = x})

\* C1: each 'connected' event issues subscribe requests naming every topic registered
\* so far exactly once (none omitted, none twice), and no request when no topic is
\* registered.
C1_ConnectNamesEveryRegisteredTopicOnce ==
    event.op = "_on_connect" =>
        IF DOMAIN feed_callbacks = {}
        THEN event.subscribe = <<>>
        ELSE /\ Len(event.subscribe) = 1
             /\ event.subscribe[1].topics \in Orders(DOMAIN feed_callbacks)

\* C2: register_feed_callback issues a subscribe request, for the single derived topic,
\* exactly when that topic was not in the subscribed-set before the call; a further
\* callback on an already-subscribed topic issues none (stated for the calls made once
\* a transport handle exists).
C2_RegisterSubscribesOnlyNewTopic ==
    [][(event'.op = "register_feed_callback" /\ _mqtt_client # NoClient) =>
         IF event'.topic \in _subscription_topics
         THEN event'.subscribe = <<>>
         ELSE event'.subscribe = << [client |-> _mqtt_client, qos |-> default_QOS,
                                     topics |-> <<event'.topic>>] >>]_vars

\* C3: a register_feed_callback call made before start() has created a transport
\* handle completes without error, with the topic in the subscribed-set and the
\* callback recorded for it.
C3_RegisterBeforeStartSucceeds ==
    (event.op = "register_feed_callback" /\ _mqtt_client = NoClient) =>
        /\ event.raised = NoError
        /\ event.topic \in _subscription_topics
        /\ event.topic \in DOMAIN feed_callbacks

\* C4: on a subscribe acknowledgment, exactly one resubscribe call is issued for each
\* subscription of the batch granted an error-class code (>= UNSPECIFIED_ERROR), none
\* for a subscription granted a success code, and the subscribed-set and the callback
\* map are unchanged.
C4_ResubscribeExactlyTheRejected ==
    [][event'.op = "_on_subscribe" =>
         /\ \A i \in 1..Len(event'.batch) :
               Occurrences(event'.resubscribe, event'.batch[i]) =
                   IF event'.qos[i] >= UNSPECIFIED_ERROR THEN 1 ELSE 0
         /\ \A j \in 1..Len(event'.resubscribe) :
               \E i \in 1..Len(event'.batch) : event'.batch[i] = event'.resubscribe[j]
         /\ event'.subscribe = <<>>
         /\ UNCHANGED <<feed_callbacks, _subscription_topics>>]_vars

\* C4 witness: a batch of two subscriptions, the first rejected and resubscribed, the
\* second granted and left alone.
C4_Witness ==
    /\ event.op = "_on_subscribe"
    /\ Len(event.batch) = 2
    /\ event.qos = <<UNSPECIFIED_ERROR, default_QOS>>
    /\ event.resubscribe = <<event.batch[1]>>

C6_UnsupportedVersionDropped ==
    [][/\ (event'.op = "_on_message" /\ event'.payload.kind = "envelope"
             /\ SemverBelow(event'.payload.version, COMMUNITY_FEED_CURRENT_MINIMUM_VERSION)) =>
            /\ event'.stage = "version_unsupported"
            /\ event'.invoked = <<>>
            /\ event'.raised = NoError
            /\ event'.disconnect = <<>>
            /\ UNCHANGED session
       /\ (event.op = "_on_message" /\ event.stage = "version_unsupported"
             /\ event'.op = "_on_message" /\ event'.topic = event.topic
             /\ Supported(event'.payload) /\ event.topic \in DOMAIN feed_callbacks) =>
            /\ event'.invoked = <<feed_callbacks[event.topic][1]>>
            /\ event'.raised = NoError]_vars

\* C6 witness: a message below the minimum version was dropped on a topic that has
\* callbacks.
C6_Witness ==
    /\ event.op = "_on_message"
    /\ event.stage = "version_unsupported"
    /\ event.payload = Envelope(<<0, 0, 1>>)
    /\ event.topic \in DOMAIN feed_callbacks

\* C7: a message whose payload fails to decompress or parse is dropped by _on_message:
\* the handler returns normally and no callback is invoked.
C7_DecodeErrorSwallowed ==
    (event.op = "_on_message" /\ event.payload.kind = "garbage") =>
        /\ event.raised = NoError
        /\ event.invoked = <<>>

\* C8: a supported message on a topic no callback was ever registered for is ignored:
\* no callback is invoked, no error is raised, and the callback map (no entry is
\* created for the topic) and the subscribed-set are unchanged.
C8_UnknownTopicIgnored ==
    [][(event'.op = "_on_message" /\ Supported(event'.payload)
          /\ event'.topic \notin DOMAIN feed_callbacks) =>
         /\ event'.invoked = <<>>
         /\ event'.raised = NoError
         /\ event'.stage = "dispatched"
         /\ UNCHANGED <<feed_callbacks, _subscription_topics, tasks>>]_vars

\* C8 witness: a supported message was handled on a topic without callbacks while
\* other topics have some.
C8_Witness ==
    /\ event.op = "_on_message"
    /\ Supported(event.payload)
    /\ event.stage = "dispatched"
    /\ event.topic \notin DOMAIN feed_callbacks
    /\ feed_callbacks # << >>

\* C9: stop() issues a disconnect, on the handle it holds, exactly when a handle exists
\* and reports itself connected; otherwise it raises nothing and changes no state; a
\* stop() that follows a stop() issues no disconnect.
C9_StopDisconnectsOnlyWhenConnected ==
    [][event'.op = "stop" =>
         /\ event'.raised = NoError
         /\ IF _mqtt_client # NoClient /\ clients[_mqtt_client] = "connected"
            THEN event'.disconnect = <<_mqtt_client>>
            ELSE event'.disconnect = <<>> /\ UNCHANGED session
         /\ event.op = "stop" => event'.disconnect = <<>>]_vars

\* C9 witness: stop() was called again after it disconnected the handle, and did
\* nothing.
C9_Witness ==
    /\ event.op = "stop"
    /\ event.disconnect = <<>>
    /\ _mqtt_client # NoClient
    /\ clients[_mqtt_client] = "closed"

\* C10: after stop() the session holds no transport handle, and no handle other than
\* the one the session holds is connected (at most one live handle).
C10_HandleDestroyedByStop ==
    /\ event.op = "stop" => _mqtt_client = NoClient
    /\ \A h \in DOMAIN clients : h # _mqtt_client => clients[h] # "connected"

C12_MessagesSerialized == Len(tasks) <= 1

\* C13: decoding what _build_message(c, v) returns for a non-empty v yields the
\* envelope {channel_type: c, version: minimum version, value: v}, which passes the
\* version check
C13_EnvelopeRoundTrip ==
    (event.op = "_build_message" /\ Truthy(event.args[2])) =>
        /\ event.raised = NoError
        /\ decode(event.result[1]) =
              [channel_type |-> event.args[1],
               version |-> COMMUNITY_FEED_CURRENT_MINIMUM_VERSION,
               value |-> event.args[2]]
        /\ ~_ensure_supported_raises(decode(event.result[1]).version)

\* C14: the version check raises exactly when the version is below the minimum in
\* the numeric major.minor.patch order
C14_VersionGateIsNumeric ==
    /\ event.op = "_ensure_supported" =>
          (event.raised = "UnsupportedError" <=> SemverBelow(event.args[1], event.args[2]))
    /\ LooseVersionLess(VersionString(<<0, 0, 1>>), VersionString(<<1, 0, 0>>))
    /\ ~LooseVersionLess(VersionString(<<1, 0, 0>>), VersionString(<<1, 0, 0>>))
    /\ ~LooseVersionLess(VersionString(<<2, 0, 0>>), VersionString(<<1, 0, 0>>))
    /\ \A v \in Versions :
          _ensure_supported_raises(v)
          <=> LooseVersionLess(VersionString(v),
                               VersionString(COMMUNITY_FEED_CURRENT_MINIMUM_VERSION))

\* 1.10.0 is checked against the minimum 1.9.0 and accepted
C14_Witness ==
    /\ event.op = "_ensure_supported"
    /\ event.args = << <<1, 10, 0>>, <<1, 9, 0>> >>
    /\ event.raised = NoError

\* C15: _build_message returns the same empty result for None and for {}, and a
\* send() of an empty message hands that empty result, no envelope, to publish
C15_EmptyValueShortCircuit ==
    /\ \A c \in ChannelTypes :
          /\ _build_message(c, PyNone) = _build_message(c, EmptyDict)
          /\ _build_message(c, PyNone) = [raised |-> NoError, result |-> <<EmptyDict>>]
    /\ (event.op = "_build_message" /\ event.args[2] \in {PyNone, EmptyDict}) =>
          event.raised = NoError /\ event.result = <<EmptyDict>>
    /\ (event.op = "send" /\ event.args[1] \in {PyNone, EmptyDict}) =>
          /\ event.raised = NoError
          /\ Len(event.publish) = 1
          /\ event.publish[1].payload = EmptyDict

\* send() has published the empty result for the message {}
C15_Witness ==
    /\ event.op = "send"
    /\ event.args[1] = EmptyDict
    /\ event.publish # <<>>
    /\ event.publish[1].payload = EmptyDict

\* C16: every send() publishes exactly once, at the default QoS, on the topic under
\* which register_feed_callback files the callbacks of its (channel type, identifier)
C16_SendPublishesOnceOnRegisteredTopic ==
    event.op = "send" =>
        /\ event.raised = NoError
        /\ Len(event.publish) = 1
        /\ event.publish[1].qos = default_QOS
        /\ event.publish[1].topic = _build_topic(event.args[2], event.args[3])

\* C17: start() fetches the credential before it creates a handle and connects: a
\* handle exists only once a credential is held, and every connection start() opens
\* is authenticated with the fetched credential and no password
C17_CredentialFetchedBeforeConnect ==
    /\ clients # << >> => _device_credential = DEVICE_CREDENTIAL
    /\ _mqtt_client # NoClient => _device_credential = DEVICE_CREDENTIAL
    /\ event.op = "start" =>
          /\ event.auth = << [username |-> DEVICE_CREDENTIAL, password |-> "None"] >>
          /\ event.auth[1].username # NoCredential
          /\ event.client = _mqtt_client
          /\ clients[event.client] = "connecting"

\* the first start() of a feed that held no credential
C17_Witness ==
    /\ event.op = "start"
    /\ event.client = 1
    /\ Len(clients) = 1
    /\ event.auth # <<>>

\* the topics of the subscribe requests that await their acknowledgment
PendingTopics == UNION {{r.topics[n] : n \in DOMAIN r.topics} : r \in pending}

\* the acknowledgment e grants topic t
GrantedBy(e, t) ==
    /\ e.op = "_on_subscribe"
    /\ \E n \in DOMAIN e.batch : e.batch[n] = t /\ ~bad_suback_code(e.qos[n])

\* C18: on a session that stays connected every topic entering the subscribed-set
\* is requested, every rejected subscription is requested again after each
\* rejection with nothing raised, a request is only ever settled by a grant, and
\* under a broker that does not reject for ever every requested topic is
\* eventually granted
C18_RetryUntilGranted ==
    /\ [][\A t \in Topics :
            /\ (clients[1] = "connected" /\ t \in _subscription_topics' \ _subscription_topics)
                  => t \in PendingTopics'
            /\ (event'.op = "_on_connect" /\ t \in _subscription_topics')
                  => t \in PendingTopics'
            /\ (event'.op = "_on_subscribe" /\ t \in PendingTopics /\ ~GrantedBy(event', t))
                  => event'.raised = NoError /\ t \in PendingTopics'
            /\ (t \in PendingTopics /\ t \notin PendingTopics') => GrantedBy(event', t)]_vars
    /\ \A t \in Topics : (t \in PendingTopics) ~> GrantedBy(event, t)

\* a subscription rejected in a batch has been requested again on its own
C18_Witness ==
    /\ event.op = "_on_subscribe"
    /\ Len(event.batch) = 2
    /\ event.resubscribe # <<>>
    /\ \E r \in pending : r.topics = <<event.resubscribe[1]>>

\* C19: in every reachable state the topics that have a registered callback are
\* exactly the topics of the subscribed-set
C19_RegistryConsistent == DOMAIN feed_callbacks = _subscription_topics

\* C20: when a callback fails, its handler ends without invoking the callbacks
\* registered after it: an UnsupportedError is swallowed, any other error leaves the
\* handler, and the callback map and the subscribed-set are unchanged
C20_FailingCallbackEndsDispatch ==
    [][(event'.op = "_on_message" /\ event'.args \in {<<"UnsupportedError">>, <<"Exception">>}) =>
          /\ Len(tasks') = Len(tasks) - 1
          /\ \E k \in DOMAIN tasks :
                /\ tasks' = Without(tasks, k)
                /\ event'.invoked = tasks[k].invoked
                /\ event'.topic = tasks[k].topic
          /\ event'.raised = (IF event'.args = <<"UnsupportedError">> THEN NoError ELSE "Exception")
          /\ event'.stage = (IF event'.args = <<"UnsupportedError">>
                             THEN "callback_unsupported" ELSE "callback_raised")
          /\ feed_callbacks' = feed_callbacks
          /\ _subscription_topics' = _subscription_topics]_vars

\* the first of two callbacks raised UnsupportedError: the second was not invoked
C20_Witness ==
    /\ event.op = "_on_message"
    /\ event.stage = "callback_unsupported"
    /\ event.topic \in DOMAIN feed_callbacks
    /\ Len(feed_callbacks[event.topic]) >= 2
    /\ event.invoked = <<feed_callbacks[event.topic][1]>>

====
